---- MODULE Spec2Model ----
\* Model of pasta/model.py: the Model class (component registry, parameter
\* table, period resolution, simulation, residuals and calibration).
\*
\* Time is counted in whole days.  Python's None and pandas' NaN are modelled
\* as the empty tuple; a present value x is the one-element tuple <<x>>.
EXTENDS Integers, Sequences, FiniteSets, TLC

\* ------------------------------------------------------------------ bounds
MaxTime == 5        \* representable timestamps are the days TsMin..TsMax
MaxLen == 4         \* longest explicit parameter vector handed to a call

\* ------------------------------------------------------- option / NaN values
None == <<>>
NaN == <<>>
Some(x) == <<x>>
Num(x) == <<x>>
IsNum(a) == a # NaN

Add(a, b) == IF IsNum(a) /\ IsNum(b) THEN Num(a[1] + b[1]) ELSE NaN
Sub(a, b) == IF IsNum(a) /\ IsNum(b) THEN Num(a[1] - b[1]) ELSE NaN
Scale(a, k) == IF IsNum(a) THEN Num(a[1] * k) ELSE NaN
Mul(a, b) == IF IsNum(a) /\ IsNum(b) THEN Num(a[1] * b[1]) ELSE NaN

SetMin(S) == CHOOSE x \in S : \A y \in S : x <= y
SetMax(S) == CHOOSE x \in S : \A y \in S : x >= y

\* ------------------------------------------------------------- timestamps
TsMin == 0                  \* pd.Timestamp.min
TsMax == MaxTime            \* pd.Timestamp.max

\* ------------------------------------------------------ observed series
\* check_oseries returns a cleaned series: strictly increasing index, no NaN.
OValue(t) == Num(((3 * t) % 5) + 10)
MkSeries(S) == [t \in S |-> OValue(t)]
ObsChoices == { MkSeries({1, 2, 4}), MkSeries({2, 3}) }

\* self.odelt: gap in days to the previous observation, NaN for the first.
Odelt(os) ==
  [t \in DOMAIN os |->
     IF t = SetMin(DOMAIN os) THEN NaN
     ELSE Num(t - SetMax({u \in DOMAIN os : u < t}))]

\* ------------------------------------------------ external collaborators
\* Components (tseries module): name, variant, nparam, own validity window.
ConstantTs == [name |-> "constant", kind |-> "Constant", nparam |-> 1,
               tmin |-> TsMin, tmax |-> TsMax]
RechargeTs == [name |-> "recharge", kind |-> "Tseries", nparam |-> 2,
               tmin |-> 2, tmax |-> 3]
Catalogue == {ConstantTs, RechargeTs}

NoiseModelObj == [name |-> "noise", nparam |-> 1]
NoiseCatalogue == {NoiseModelObj}

\* A component's parameter-specification rows (initial/bounds/vary/name);
\* DataFrame.append leaves the table's 'optimal' column NaN for them.
ParamRows(obj) ==
  [i \in 1..obj.nparam |->
     [label |-> <<obj.name, i>>, initial |-> Num(i), pmin |-> Num(0),
      pmax |-> Num(100), vary |-> TRUE, optimal |-> NaN, name |-> obj.name]]

\* ts.simulate(p, tindex): the component's contribution at time t for the
\* slice p it was handed.  A slice shorter than nparam is an error inside the
\* component.
CompAccepts(ts, p) == Len(p) = ts.nparam

RECURSIVE CompTerm(_, _, _, _)
CompTerm(ts, p, t, j) ==
  IF j = 0 THEN Num(0)
  ELSE Add(CompTerm(ts, p, t, j - 1),
           IF ts.kind = "Constant" THEN p[j] ELSE Scale(p[j], t + j))

CompSimulate(ts, p, t) == CompTerm(ts, p, t, ts.nparam)

\* noisemodel.simulate(r, delt, p, tindex): innovations
\*   v[first] = r[first],  v[t] = r[t] - p[1] * delt[t] * r[previous t]
NoiseAccepts(nm, p) == Len(p) = nm.nparam

NoiseSimulate(nm, r, delt, p) ==
  [t \in DOMAIN r |->
     IF t = SetMin(DOMAIN r) THEN r[t]
     ELSE Sub(r[t], Mul(Mul(p[1], delt[t]),
                        r[SetMax({u \in DOMAIN r : u < t})]))]

\* External solver adapter: on success exposes optimal_params (one value per
\* table row) and a report; it may also raise.
SolverOptimal(n) == [i \in 1..n |-> Num(10 + i)]
SolverReport(n) == "fit report"
SolverOutcomes == {"ok", "raise"}

\* ------------------------------------------------------------------ state
VARIABLES
  oseries,        \* self.oseries: function from observed days to values
  tseriesdict,    \* self.tseriesdict: components in insertion order
  noisemodel,     \* self.noisemodel: None or Some(noise model)
  tmin,           \* self.tmin: None or Some(day)
  tmax,           \* self.tmax: None or Some(day)
  hasParameters,  \* whether the attributes self.parameters / self.nparam exist
  parameters,     \* self.parameters: sequence of rows
  nparam,         \* self.nparam
  report,         \* self.report: "None" until a solve has completed
  last            \* the most recent call: operation, arguments, outcome

vars == <<oseries, tseriesdict, noisemodel, tmin, tmax, hasParameters,
          parameters, nparam, report, last>>

Call(op, args, outcome, ret, warnings) ==
  [op |-> op, args |-> args, outcome |-> outcome, ret |-> ret,
   warnings |-> warnings, window |-> <<>>]

\* Model.__init__
Construct(os) ==
  /\ oseries = os
  /\ tseriesdict = <<>>
  /\ noisemodel = None
  /\ tmin = None
  /\ tmax = None
  /\ hasParameters = FALSE
  /\ parameters = <<>>
  /\ nparam = 0
  /\ report = "None"
  /\ last = Call("__init__", <<>>, "ok", <<>>, {})

Init == Construct(MkSeries({1, 2, 4}))
InitQuery == \E os \in ObsChoices : Construct(os)

\* ------------------------------------------------------------ registry
\* OrderedDict.__setitem__: overwrite in place, or append a new key.
DictSet(dict, ts) ==
  IF \E i \in 1..Len(dict) : dict[i].name = ts.name
  THEN [i \in 1..Len(dict) |-> IF dict[i].name = ts.name THEN ts ELSE dict[i]]
  ELSE Append(dict, ts)

addtseries(ts) ==
  /\ tseriesdict' = DictSet(tseriesdict, ts)
  /\ last' = Call("addtseries", <<ts>>, "ok", <<>>, {})
  /\ UNCHANGED <<oseries, noisemodel, tmin, tmax, hasParameters, parameters,
                 nparam, report>>

addnoisemodel(nm) ==
  /\ noisemodel' = Some(nm)
  /\ last' = Call("addnoisemodel", <<nm>>, "ok", <<>>, {})
  /\ UNCHANGED <<oseries, tseriesdict, tmin, tmax, hasParameters, parameters,
                 nparam, report>>

\* ------------------------------------------------------ period resolver
\* check_series, lines 203-210: a missing bound defaults to the observed
\* extremum, a given one is converted to a Timestamp.
ResolveTmin(req) == IF req = None THEN SetMin(DOMAIN oseries) ELSE req[1]
ResolveTmax(req) == IF req = None THEN SetMax(DOMAIN oseries) ELSE req[1]

\* lines 213-218: advisory warnings.
PeriodWarnings(t0, t1) ==
  (IF t0 \notin DOMAIN oseries THEN {"tmin outside oseries"} ELSE {})
    \cup (IF t1 \notin DOMAIN oseries THEN {"tmax outside oseries"} ELSE {})

\* Variant: the tracking minimum is raised to a later component start.
TstMinStepNarrowing(acc, ts) ==
  IF ts.kind = "Constant" THEN acc
  ELSE IF ts.tmin > acc THEN ts.tmin ELSE acc

\* lines 224-231: one pass of the loop body over a component.
TstMinStep(acc, ts) ==
  IF ts.kind = "Constant" THEN acc
  ELSE IF ts.tmin < acc THEN ts.tmin ELSE acc

TstMaxStep(acc, ts) ==
  IF ts.kind = "Constant" THEN acc
  ELSE IF ts.tmax > acc THEN ts.tmax ELSE acc

RECURSIVE TstMin(_, _)
TstMin(dict, i) ==
  IF i = 0 THEN TsMin ELSE TstMinStep(TstMin(dict, i - 1), dict[i])

RECURSIVE TstMax(_, _)
TstMax(dict, i) ==
  IF i = 0 THEN TsMax ELSE TstMaxStep(TstMax(dict, i - 1), dict[i])

\* lines 236-242: the returned window.
ClipTmin(tstmin, t0) == IF tstmin > t0 THEN tstmin ELSE t0
ClipTmax(tstmax, t1) == IF tstmax < t1 THEN tstmax ELSE t1

\* The whole of check_series: what it stores, what it returns, what it warns.
CheckSeriesResult(reqmin, reqmax) ==
  LET t0 == ResolveTmin(reqmin)
      t1 == ResolveTmax(reqmax)
      n == Len(tseriesdict)
  IN [stored |-> <<t0, t1>>,
      ret |-> <<ClipTmin(TstMin(tseriesdict, n), t0),
                ClipTmax(TstMax(tseriesdict, n), t1)>>,
      warnings |-> PeriodWarnings(t0, t1)]

check_series(reqmin, reqmax) ==
  LET res == CheckSeriesResult(reqmin, reqmax) IN
  /\ tmin' = Some(res.stored[1])
  /\ tmax' = Some(res.stored[2])
  /\ last' = Call("check_series", <<>>, "ok", res.ret,
                  res.warnings)
  /\ UNCHANGED <<oseries, tseriesdict, noisemodel, hasParameters, parameters,
                 nparam, report>>

\* -------------------------------------------------------- parameter table
RECURSIVE SumNparam(_, _)
SumNparam(dict, i) ==
  IF i = 0 THEN 0 ELSE SumNparam(dict, i - 1) + dict[i].nparam

\* initialize, lines 132-134.
TotalNparam(dict, nm) ==
  SumNparam(dict, Len(dict)) + (IF nm # None THEN nm[1].nparam ELSE 0)

RECURSIVE ComponentRows(_, _)
ComponentRows(dict, i) ==
  IF i = 0 THEN <<>> ELSE ComponentRows(dict, i - 1) \o ParamRows(dict[i])

\* Variant: the noise model's rows are left out of the table.
BuildTableNoNoise(dict, nm) == ComponentRows(dict, Len(dict))

\* initialize, lines 135-140.
BuildTable(dict, nm) ==
  ComponentRows(dict, Len(dict))
    \o (IF nm # None THEN ParamRows(nm[1]) ELSE <<>>)

Column(table, col) == [i \in 1..Len(table) |-> table[i][col]]
Labels(table) == [i \in 1..Len(table) |-> table[i].label]

\* initialize, line 142: assigning the saved 'optimal' Series to the column
\* 'initial' aligns it on the row labels; a label the Series lacks gets NaN.
Lookup(old, label) ==
  IF \E i \in 1..Len(old) : old[i].label = label
  THEN old[CHOOSE i \in 1..Len(old) : old[i].label = label].optimal
  ELSE NaN

\* Variant: the saved optimal values are not written back.
CarryNothing(old, table) == table

CarryOptimal(old, table) ==
  [i \in 1..Len(table) |->
     [table[i] EXCEPT !.initial = Lookup(old, table[i].label)]]

\* The table initialize leaves behind.
InitializedTable(initial) ==
  IF initial THEN BuildTable(tseriesdict, noisemodel)
  ELSE CarryOptimal(parameters, BuildTable(tseriesdict, noisemodel))

\* initialize(initial=False) reads self.parameters first (line 131).
InitializeFails(initial) == ~initial /\ ~hasParameters

initialize(initial) ==
  /\ IF InitializeFails(initial)
     THEN /\ last' = Call("initialize", <<initial>>, "AttributeError", <<>>, {})
          /\ UNCHANGED <<hasParameters, parameters, nparam>>
     ELSE /\ nparam' = TotalNparam(tseriesdict, noisemodel)
          /\ parameters' = InitializedTable(initial)
          /\ hasParameters' = TRUE
          /\ last' = Call("initialize", <<initial>>, "ok", <<>>, {})
  /\ UNCHANGED <<oseries, tseriesdict, noisemodel, tmin, tmax, report>>

\* ------------------------------------------------ calibration orchestrator
SetOptimal(table, values) ==
  [i \in 1..Len(table) |-> [table[i] EXCEPT !.optimal = values[i]]]

SolveWarnings(noise) ==
  IF noise /\ noisemodel = None THEN {"no noise model"} ELSE {}

solve(reqmin, reqmax, noise, initial, solver) ==
  LET res == CheckSeriesResult(reqmin, reqmax)
      warn == SolveWarnings(noise) \cup res.warnings
      args == <<initial>>
      table == InitializedTable(initial)
  IN
  /\ tmin' = Some(res.stored[1])
  /\ tmax' = Some(res.stored[2])
  /\ IF InitializeFails(initial)
     THEN /\ last' = Call("solve", args, "AttributeError", <<>>, warn)
          /\ UNCHANGED <<hasParameters, parameters, nparam, report>>
     ELSE /\ nparam' = TotalNparam(tseriesdict, noisemodel)
          /\ hasParameters' = TRUE
          /\ IF solver = "raise"
             THEN /\ parameters' = table
                  /\ last' = Call("solve", args, "SolverError", res.ret, warn)
                  /\ UNCHANGED report
             ELSE /\ parameters' = SetOptimal(table, SolverOptimal(Len(table)))
                  /\ report' = SolverReport(Len(table))
                  /\ last' = Call("solve", args, "ok", res.ret, warn)
  /\ UNCHANGED <<oseries, tseriesdict, noisemodel>>

\* ------------------------------------------------------ simulation engine
\* Variant: the slice has no upper end, parameters[istart:].
SliceToEnd(p, istart, k) ==
  IF istart >= Len(p) THEN <<>> ELSE SubSeq(p, istart + 1, Len(p))

\* Variant: the running index is ignored, parameters[:k].
SliceFromZero(p, istart, k) ==
  SubSeq(p, 1, IF k > Len(p) THEN Len(p) ELSE k)

\* parameters[istart: istart + k] (0-based, clamped to the vector's end).
Slice(p, istart, k) ==
  IF istart >= Len(p) THEN <<>>
  ELSE SubSeq(p, istart + 1, IF istart + k > Len(p) THEN Len(p) ELSE istart + k)

\* pd.date_range(tmin, tmax, freq='D')
DateRange(t0, t1) == t0..t1

\* simulate, lines 92-96: the accumulator h, the running index istart, and
\* whether a component rejected its slice, after the first i components.
RECURSIVE SimLoop(_, _, _, _)
SimLoop(dict, i, p, tindex) ==
  IF i = 0 THEN [h |-> [t \in tindex |-> Num(0)], istart |-> 0, err |-> FALSE]
  ELSE LET prev == SimLoop(dict, i - 1, p, tindex)
           ts == dict[i]
           sl == Slice(p, prev.istart, ts.nparam)
       IN IF prev.err \/ ~CompAccepts(ts, sl)
          THEN [prev EXCEPT !.err = TRUE]
          ELSE [h |-> [t \in tindex |-> Add(prev.h[t], CompSimulate(ts, sl, t))],
                istart |-> prev.istart + ts.nparam,
                err |-> FALSE]

\* Variant: a missing bound falls back on the observed extent, as in residuals.
SimWindowObserved(a, b) ==
  <<IF a = None THEN Some(SetMin(DOMAIN oseries)) ELSE a,
    IF b = None THEN Some(SetMax(DOMAIN oseries)) ELSE b>>

\* simulate, lines 82-85.
SimWindow(a, b) ==
  <<IF a = None THEN tmin ELSE a, IF b = None THEN tmax ELSE b>>

\* The whole of simulate: its outcome, the window it used and its result.
SimulateResult(p, a, b) ==
  LET w == SimWindow(a, b) IN
  IF w[1] = None \/ w[2] = None
  THEN [outcome |-> "AssertionError: model needs to be solved first",
        window |-> w, ret |-> <<>>]
  ELSE IF p = None /\ ~hasParameters
  THEN [outcome |-> "AttributeError", window |-> w, ret |-> <<>>]
  ELSE LET vec == IF p = None THEN Column(parameters, "optimal") ELSE p[1]
           run == SimLoop(tseriesdict, Len(tseriesdict), vec,
                          DateRange(w[1][1], w[2][1]))
       IN IF run.err
          THEN [outcome |-> "ComponentError", window |-> w, ret |-> <<>>]
          ELSE [outcome |-> "ok", window |-> w, ret |-> run.h]

simulate(p, a, b) ==
  LET res == SimulateResult(p, a, b) IN
  /\ last' = [Call("simulate", <<p, a, b>>, res.outcome, res.ret, {})
                EXCEPT !.window = res.window]
  /\ UNCHANGED <<oseries, tseriesdict, noisemodel, tmin, tmax, hasParameters,
                 parameters, nparam, report>>

\* ---------------------------------------------- residual/objective engine
\* parameters[-k:]
TailSlice(p, k) == IF Len(p) <= k THEN p ELSE SubSeq(p, Len(p) - k + 1, Len(p))

RECURSIVE SumSquares(_, _)
SumSquares(r, S) ==
  IF S = {} THEN Num(0)
  ELSE LET t == SetMin(S) IN Add(Mul(r[t], r[t]), SumSquares(r, S \ {t}))

\* Variant: the noise flag is not consulted.
UseNoiseIgnoringFlag(noise) == noisemodel # None

\* residuals, line 116.
UseNoise(noise) == noise /\ noisemodel # None

\* The whole of residuals.
ResidualsResult(p, a, b, noise) ==
  LET t0 == IF a = None THEN SetMin(DOMAIN oseries) ELSE a[1]
      t1 == IF b = None THEN SetMax(DOMAIN oseries) ELSE b[1]
      tindex == {t \in DOMAIN oseries : t0 <= t /\ t <= t1}
  IN
  IF p = None /\ ~hasParameters
  THEN [outcome |-> "AttributeError", ret |-> <<>>, warnings |-> {}]
  ELSE LET vec == IF p = None THEN Column(parameters, "optimal") ELSE p[1]
           sim == SimulateResult(Some(vec), Some(t0), Some(t1))
           raw == [t \in tindex |-> Sub(oseries[t], sim.ret[t])]
           useNoise == UseNoise(noise)
           sl == TailSlice(vec, noisemodel[1].nparam)
           r == IF useNoise
                THEN NoiseSimulate(noisemodel[1], raw,
                                   [t \in tindex |-> Odelt(oseries)[t]], sl)
                ELSE raw
       IN IF sim.outcome # "ok"
          THEN [outcome |-> sim.outcome, ret |-> <<>>, warnings |-> {}]
          ELSE IF useNoise /\ ~NoiseAccepts(noisemodel[1], sl)
          THEN [outcome |-> "NoiseModelError", ret |-> <<>>, warnings |-> {}]
          ELSE [outcome |-> "ok", ret |-> r,
                warnings |-> IF SumSquares(r, tindex) = NaN
                             THEN {"nan problem in residuals"} ELSE {}]

residuals(p, a, b, noise) ==
  LET res == ResidualsResult(p, a, b, noise) IN
  /\ last' = Call("residuals", <<p, a, b, noise>>, res.outcome, res.ret,
                  res.warnings)
  /\ UNCHANGED <<oseries, tseriesdict, noisemodel, tmin, tmax, hasParameters,
                 parameters, nparam, report>>

sse(p, a, b, noise) ==
  LET res == ResidualsResult(p, a, b, noise) IN
  /\ last' = Call("sse", <<p, a, b, noise>>, res.outcome,
                  IF res.outcome = "ok"
                  THEN SumSquares(res.ret, DOMAIN res.ret) ELSE <<>>,
                  res.warnings)
  /\ UNCHANGED <<oseries, tseriesdict, noisemodel, tmin, tmax, hasParameters,
                 parameters, nparam, report>>

\* ------------------------------------------------------------ call inputs
ReqTmin == {None, Some(TsMin)}
ReqTmax == {None, Some(TsMax)}
SolveWindows == {<<None, None>>, <<Some(TsMin), Some(TsMax)>>}

\* Explicit parameter vectors: one of every length up to MaxLen.
Ramp(n) == [i \in 1..n |-> Num(i)]
Vectors == {Ramp(n) : n \in 0..MaxLen}
ParamArgs == {None} \cup {Some(v) : v \in Vectors}
LifeParamArgs == {None, Some(Ramp(MaxLen))}

WinTmin == {None, Some(2)}
WinTmax == {None, Some(3)}
Windows == {<<None, None>>, <<Some(2), Some(3)>>}

\* Registration, period resolution and the three query methods.
Queries ==
  \/ \E ts \in Catalogue : addtseries(ts)
  \/ \E nm \in NoiseCatalogue : addnoisemodel(nm)
  \/ \E a \in ReqTmin, b \in ReqTmax : check_series(a, b)
  \/ \E p \in ParamArgs, a \in WinTmin, b \in WinTmax : simulate(p, a, b)
  \/ \E p \in ParamArgs, w \in Windows, noise \in BOOLEAN :
        residuals(p, w[1], w[2], noise)
  \/ \E p \in ParamArgs, noise \in BOOLEAN : sse(p, None, None, noise)

SpecQuery == InitQuery /\ [][Queries]_vars

\* The whole life cycle of a model.
Next ==
  \/ \E ts \in Catalogue : addtseries(ts)
  \/ \E nm \in NoiseCatalogue : addnoisemodel(nm)
  \/ \E a \in ReqTmin, b \in ReqTmax : check_series(a, b)
  \/ \E initial \in BOOLEAN : initialize(initial)
  \/ \E w \in SolveWindows, noise \in BOOLEAN, initial \in BOOLEAN,
        solver \in SolverOutcomes : solve(w[1], w[2], noise, initial, solver)
  \/ \E p \in LifeParamArgs, a \in WinTmin, b \in WinTmax : simulate(p, a, b)
  \/ \E p \in LifeParamArgs, noise \in BOOLEAN : residuals(p, None, None, noise)
  \/ \E p \in LifeParamArgs : sse(p, None, None, TRUE)

Spec == Init /\ [][Next]_vars

\* ================================================================ claims
Ok == "ok"
Unfit == "AssertionError: model needs to be solved first"
ObsFirst == SetMin(DOMAIN oseries)
ObsLast == SetMax(DOMAIN oseries)
NonConstant == {i \in 1..Len(tseriesdict) : tseriesdict[i].kind # "Constant"}
ComponentParams == SumNparam(tseriesdict, Len(tseriesdict))

\* ---- C1
\* C1: the window check_series returns lies inside the observed extent and
\* inside the declared window of every registered non-Constant component.
C1_WindowWithinIntersection ==
  last.op = "check_series" =>
    /\ last.ret[1] >= ObsFirst
    /\ last.ret[2] <= ObsLast
    /\ \A i \in NonConstant :
         /\ last.ret[1] >= tseriesdict[i].tmin
         /\ last.ret[2] <= tseriesdict[i].tmax

\* ---- C2
\* C2: a solve whose solver raises leaves the parameter table, the report and
\* the period state exactly as they were before the call.
C2_FailedSolveMutatesNothing ==
  [][(last'.op = "solve" /\ last'.outcome = "SolverError")
       => UNCHANGED <<hasParameters, parameters, nparam, report, tmin, tmax>>]_vars

\* ---- C3
RECURSIVE RegisteredNparam(_)
RegisteredNparam(S) ==
  IF S = {} THEN 0
  ELSE LET i == CHOOSE x \in S : TRUE
       IN tseriesdict[i].nparam + RegisteredNparam(S \ {i})

ExpectedRows ==
  RegisteredNparam(1..Len(tseriesdict))
    + (IF noisemodel = None THEN 0 ELSE noisemodel[1].nparam)

\* C3 (as claimed): whenever a parameter table exists its row count and the
\* stored nparam equal the parameter count of what is registered now.
C3_RowCountAlways ==
  hasParameters => (Len(parameters) = ExpectedRows /\ nparam = ExpectedRows)

\* C3 (amended): right after initialize or solve has rebuilt the table, its
\* row count and the stored nparam equal the parameter count of what is
\* registered.
C3_RowCountAfterInitialize ==
  (last.op \in {"initialize", "solve"} /\ last.outcome # "AttributeError")
    => (hasParameters /\ Len(parameters) = ExpectedRows /\ nparam = ExpectedRows)

C3_Witness ==
  /\ last.op = "initialize"
  /\ last.outcome = Ok
  /\ report # "None"
  /\ noisemodel # None
  /\ Len(tseriesdict) = 2
  /\ Len(parameters) = 4

\* ---- C4
\* C4: while no solve has completed, simulate() without a parameter vector
\* (and without a window of its own) fails with the unfit-model error.
C4_UnsolvedSimulateIsUnfit ==
  (last.op = "simulate" /\ last.args = <<None, None, None>> /\ report = "None")
    => last.outcome = Unfit

SliceOf(vec, i) ==
  [j \in 1..tseriesdict[i].nparam |->
     vec[SumNparam(tseriesdict, i - 1) + j]]

RECURSIVE SumOfContributions(_, _, _)
SumOfContributions(vec, t, S) ==
  IF S = {} THEN Num(0)
  ELSE LET i == CHOOSE x \in S : TRUE
       IN Add(CompSimulate(tseriesdict[i], SliceOf(vec, i), t),
              SumOfContributions(vec, t, S \ {i}))

ExpectedSeries(vec, w) ==
  [t \in w[1][1]..w[2][1] |-> SumOfContributions(vec, t, 1..Len(tseriesdict))]

WindowKnown(w) == w[1] # None /\ w[2] # None

\* C5 (as claimed): simulate given a window and a vector whose length is not
\* the components' parameter count fails instead of producing a series.
C5_WrongLengthRejected ==
  (/\ last.op = "simulate"
   /\ last.args[1] # None
   /\ WindowKnown(last.window)
   /\ Len(last.args[1][1]) # ComponentParams)
    => last.outcome # Ok

\* C5 (amended): simulate makes no length check; it reads the first
\* ComponentParams entries only, so every vector at least that long gives the
\* series of its prefix, and residuals hands simulate the whole vector,
\* trailing noise parameters included.
C5_ReadsPrefixOnly ==
  /\ (/\ last.op = "simulate"
      /\ last.args[1] # None
      /\ WindowKnown(last.window)
      /\ Len(last.args[1][1]) >= ComponentParams)
       => /\ last.outcome = Ok
          /\ last.ret = ExpectedSeries(SubSeq(last.args[1][1], 1, ComponentParams),
                                       last.window)
  /\ (/\ last.op = "residuals"
      /\ last.args[1] # None
      /\ noisemodel # None
      /\ Len(last.args[1][1]) = ComponentParams + noisemodel[1].nparam)
       => last.outcome = Ok

C5_Witness ==
  /\ last.op = "residuals"
  /\ last.args[1] # None
  /\ last.args[4]
  /\ noisemodel # None
  /\ Len(tseriesdict) = 2
  /\ Len(last.args[1][1]) = ComponentParams + noisemodel[1].nparam
  /\ last.outcome = Ok

\* ---- C6
WarmInitialize ==
  /\ last'.op \in {"initialize", "solve"}
  /\ last'.args[1] = FALSE
  /\ last'.outcome # "AttributeError"
  /\ report # "None"

Owner(k) ==
  {i \in 1..Len(tseriesdict) :
     SumNparam(tseriesdict, i - 1) < k /\ k <= SumNparam(tseriesdict, i)}

Bump(vec, k) == [vec EXCEPT ![k] = Add(vec[k], Num(5))]

\* C7: simulate returns the sum of the components' contributions, component i
\* being given the slice after the first i-1 components' parameters; changing
\* one entry changes the result by the change of its owner's contribution.
C7_SlicedSum ==
  (last.op = "simulate" /\ last.args[1] # None /\ last.outcome = Ok)
    => LET vec == last.args[1][1]
           w == last.window
       IN /\ Len(vec) >= ComponentParams
          /\ last.ret = ExpectedSeries(vec, w)
          /\ \A k \in 1..Len(vec) :
               LET q == Bump(vec, k)
                   rq == SimulateResult(Some(q), w[1], w[2])
               IN /\ rq.outcome = Ok
                  /\ \A t \in DOMAIN last.ret :
                       IF Owner(k) = {} THEN rq.ret[t] = last.ret[t]
                       ELSE LET i == CHOOSE x \in Owner(k) : TRUE IN
                            Sub(rq.ret[t], last.ret[t])
                              = Sub(CompSimulate(tseriesdict[i], SliceOf(q, i), t),
                                    CompSimulate(tseriesdict[i], SliceOf(vec, i), t))

C7_Witness ==
  /\ last.op = "simulate"
  /\ last.outcome = Ok
  /\ Len(tseriesdict) = 2
  /\ tseriesdict[1].kind # "Constant"
  /\ Len(last.args[1][1]) = ComponentParams
  /\ Cardinality(DOMAIN last.ret) >= 2

\* ---- C8
\* C8: residuals with noise=False is observed minus simulated at the observed
\* timestamps of the window, whether or not a noise model is registered.
C8_RawResiduals ==
  (last.op = "residuals" /\ last.args[4] = FALSE /\ last.args[1] # None)
    => LET t0 == IF last.args[2] = None THEN ObsFirst ELSE last.args[2][1]
           t1 == IF last.args[3] = None THEN ObsLast ELSE last.args[3][1]
           sim == SimulateResult(last.args[1], Some(t0), Some(t1))
       IN /\ last.outcome = sim.outcome
          /\ last.outcome = Ok =>
               /\ DOMAIN last.ret = {t \in DOMAIN oseries : t0 <= t /\ t <= t1}
               /\ \A t \in DOMAIN last.ret :
                    last.ret[t] = Sub(oseries[t], sim.ret[t])

C8_Witness ==
  /\ last.op = "residuals"
  /\ last.args[4] = FALSE
  /\ last.outcome = Ok
  /\ noisemodel # None
  /\ Len(tseriesdict) = 2
  /\ Cardinality(DOMAIN last.ret) >= 2
  /\ last.ret # NoiseSimulate(noisemodel[1], last.ret,
                              [t \in DOMAIN last.ret |-> Odelt(oseries)[t]],
                              TailSlice(last.args[1][1], 1))

\* ---- C9
PeriodUndefined == tmin = None /\ tmax = None

\* C9 (as claimed): while the period state is undefined, simulate, residuals
\* and sse called without a window all fail, with or without a vector.
C9_AllFailWithoutPeriod ==
  (/\ PeriodUndefined
   /\ \/ last.op = "simulate" /\ last.args[2] = None /\ last.args[3] = None
      \/ last.op \in {"residuals", "sse"} /\ last.args[2] = None
                                          /\ last.args[3] = None)
    => last.outcome # Ok

\* C9 (amended): while the period state is undefined, simulate fails with the
\* unfit-model assertion unless it is given both tmin and tmax; residuals and
\* sse fall back on the observed extent and, given a vector long enough for
\* every component, return a result.
C9_SimulateFailsWithoutPeriod ==
  /\ (/\ PeriodUndefined
      /\ last.op = "simulate"
      /\ (last.args[2] = None \/ last.args[3] = None))
       => (last.outcome = Unfit /\ last.ret = <<>>)
  /\ (/\ PeriodUndefined
      /\ last.op \in {"residuals", "sse"}
      /\ last.args[1] # None
      /\ Len(last.args[1][1]) >= ExpectedRows)
       => last.outcome = Ok

C9_Witness ==
  /\ PeriodUndefined
  /\ last.op = "simulate"
  /\ last.args[1] # None
  /\ last.args[2] # None
  /\ hasParameters
  /\ Len(tseriesdict) = 2
  /\ last.outcome = Unfit
====
